---- MODULE Spec2Model ----
(***************************************************************************)
(* Model of the job lifecycle coordinator of scraperis-mcp:                *)
(* ScraperAPI.scrape (src/lib/scraper-api.ts), the submit -> poll ->       *)
(* finalize loop, with the progress sink it notifies and the remote        *)
(* Extraction Service it calls.                                            *)
(*                                                                         *)
(* Each invocation of scrape is a sequential process whose position (pc)   *)
(* is one of the suspension points of the async function:                  *)
(*   "idle"      not started                                               *)
(*   "submit"    awaiting POST /extract_prompt and its json()              *)
(*   "loop"      top of the while loop: fetchCount++, onProgress           *)
(*   "poll"      progress reported, about to issue GET /get_data           *)
(*   "fetch"     awaiting GET /get_data and its json()                     *)
(*   "sleep"     awaiting sleep(pollingInterval)                           *)
(*   "ready"     ready payload found: onProgress(100)                      *)
(*   "return"    about to return the payload                               *)
(*   "returned"  the promise resolved with a payload                       *)
(*   "thrown"    the promise rejected                                      *)
(***************************************************************************)
EXTENDS Integers, Sequences, FiniteSets, TLC

\* ------------------------------------------------------------------ bounds

\* Cap on the number of poll iterations of one invocation (the code has none).
MaxPolls == 102

\* The same cap in the short runs.
MaxPollsShort == 2

\* ---------------------------------------------------------------- constants

\* A field that the JSON response does not carry (undefined in JavaScript).
Absent == "<absent>"

\* Identifiers of the invocations of scrape the model can hold.
CallIds == {"call1", "call2"}

\* The value of the final progress notification (and the server's total).
Hundred == 100

\* The fields of a ScraperResponse that scrape reads.
ProcessingValues == {Absent, "true", "false"}
StatusValues == {Absent, "running", "completed", "failed"}
ErrorValues == {Absent, "", "blocked"}
MarkdownValues == {Absent, "", "World"}
ScreenshotValues == {Absent, "https://test.com/screenshot.png"}

\* The fields only the tool-call handler reads: data stands for the object
\* {"a":1,"b":2}, url for the page that was scraped.
DataValues == {Absent, "rows"}
UrlValues == {Absent, "https://example.com"}

ScraperResponse ==
    [job_id : {Absent, "j1"},
     processing : ProcessingValues,
     status : StatusValues,
     error : ErrorValues,
     markdown : MarkdownValues,
     screenshot : ScreenshotValues,
     data : DataValues,
     url : UrlValues]

\* What the service answers to the submit call, and to a status poll, in the
\* runs of scrape alone, which reads neither data nor url.
SubmitResponses == {r \in ScraperResponse : r.data = Absent /\ r.url = Absent}
PollResponses == {r \in SubmitResponses : r.job_id = Absent}

\* The answers drawn in the runs of the tool-call handler: every field the
\* handler reads, present or not.
ServerPollResponses ==
    {r \in ScraperResponse :
        /\ r.job_id = Absent
        /\ r.processing # "false" /\ r.status # "running"
        /\ r.error # "" /\ r.markdown # ""}

ServerSubmitResponses ==
    {r \in ScraperResponse :
        /\ r.processing = Absent
        /\ r.error # ""
        /\ \/ (r.job_id = Absent /\ r.status \in {Absent, "completed"})
           \/ (/\ r.job_id = "j1" /\ r.status = Absent /\ r.error = Absent
               /\ r.markdown = Absent /\ r.screenshot = Absent
               /\ r.data = Absent /\ r.url = Absent)}

\* What POST /screenshot answers: any JSON object.
ScreenshotResponses ==
    {r \in ScraperResponse :
        /\ r.job_id = Absent /\ r.processing = Absent /\ r.status = Absent
        /\ r.markdown = Absent /\ r.data = Absent /\ r.url = Absent
        /\ r.error # ""
        /\ ~(r.error # Absent /\ r.screenshot # Absent)}

\* The answers drawn in the runs that hold two invocations: a job
\* handle or a synchronous payload from submit; still processing, nothing yet,
\* ready, and failed from a poll.
ShortSubmitResponses ==
    {r \in SubmitResponses :
        /\ r.processing = Absent /\ r.status = Absent /\ r.error = Absent
        /\ r.screenshot = Absent
        /\ \/ (r.job_id = "j1" /\ r.markdown = Absent)
           \/ (r.job_id = Absent /\ r.markdown = "World")}

ShortPollResponses ==
    {r \in PollResponses :
        /\ r.screenshot = Absent
        /\ \/ (r.processing = "true" /\ r.status = "running"
                /\ r.error = Absent /\ r.markdown = Absent)
           \/ (r.processing = Absent /\ r.status = Absent
                /\ r.error = Absent /\ r.markdown = Absent)
           \/ (r.processing = "false" /\ r.status = "completed"
                /\ r.error = Absent /\ r.markdown = "World")
           \/ (r.processing = Absent /\ r.status = "failed"
                /\ r.error = "blocked" /\ r.markdown = Absent)}

\* The ids nanoid() hands out, in the order of the calls: all different.
IdPool == <<"chat-1", "chat-2", "chat-3">>

\* A generator that hands out the same id every time.
generateChatId_Constant(n) == "test-chat-id"

\* generateChatId(): the id of the n-th call of nanoid().
generateChatId(n) == IdPool[n]

\* No response received yet.
NoResponse == [job_id |-> Absent, processing |-> Absent, status |-> Absent,
               error |-> Absent, markdown |-> Absent, screenshot |-> Absent,
               data |-> Absent, url |-> Absent]

\* JavaScript truthiness of an optional string or object field.
Truthy(v) == v # Absent /\ v # ""

\* ['completed', 'failed'].includes(scraperStatus || '')
TerminalStatuses == {"completed", "failed"}

IsTerminalStatus(status) == (IF Truthy(status) THEN status ELSE "") \in TerminalStatuses

\* !(!scraperData.markdown && !scraperData.screenshot)
HasData(r) == Truthy(r.markdown) \/ Truthy(r.screenshot)

\* The message without the remote error interpolated.
ScraperErrorMessage_Generic(err) == "Scraper error"

\* `Scraper error: ${scraperData.error}`
ScraperErrorMessage(err) == "Scraper error: " \o err

\* The rejection of a failed fetch()/json().
TransportError == [kind |-> "transport", message |-> "fetch failed"]

JobError(err) == [kind |-> "job", message |-> ScraperErrorMessage(err)]

NoError == [kind |-> "none", message |-> ""]

\* The rejection of onProgress: server.notification on a closed connection.
SinkError == [kind |-> "sink", message |-> "Not connected"]

\* ------------------------------------------------- the tool-call handler

ToolNames == {"scrape", "screenshot", "delete"}

Formats == {"markdown", "html", "screenshot", "json", "quick"}

ProgressTokens == {Absent, "", "tok-1"}

\* JSON.stringify of the members of an object, in order, undefined ones left
\* out.
RECURSIVE JoinMembers(_)
JoinMembers(ms) ==
    IF ms = << >> THEN ""
    ELSE IF Len(ms) = 1 THEN Head(ms)
    ELSE Head(ms) \o "," \o JoinMembers(Tail(ms))

Quoted(str) == "\"" \o str \o "\""

Member(key, value) == Quoted(key) \o ":" \o value

\* JSON.stringify(handlerData.data): the object {a: 1, b: 2}.
StringifyData(d) == "{\"a\":1,\"b\":2}"

\* JSON.stringify(handlerData.data, null, 2)
StringifyDataIndented(d) == "{\n  \"a\": 1,\n  \"b\": 2\n}"

\* JSON.stringify(handlerData)
Stringify(r) ==
    LET members ==
            << <<r.job_id, Member("job_id", Quoted(r.job_id))>>,
               <<r.processing, Member("processing", r.processing)>>,
               <<r.status, Member("status", Quoted(r.status))>>,
               <<r.error, Member("error", Quoted(r.error))>>,
               <<r.markdown, Member("markdown", Quoted(r.markdown))>>,
               <<r.screenshot,
                 Member("screenshot", "{" \o Member("url", Quoted(r.screenshot)) \o "}")>>,
               <<r.data, Member("data", StringifyData(r.data))>>,
               <<r.url, Member("url", Quoted(r.url))>> >>
        present == SelectSeq(members, LAMBDA m : m[1] # Absent)
    IN  "{" \o JoinMembers([k \in 1..Len(present) |-> present[k][2]]) \o "}"

NoResult == [content |-> << >>, isError |-> FALSE]

\* params of a notifications/progress message
ProgressParams(value, token) ==
    [progress |-> value, total |-> Hundred, progressToken |-> token]

\* The key the server was constructed with, and the url argument of a
\* screenshot tool call.
ApiKey == "test-api-key"

\* What SCRAPERIS_API_KEY may hold when the process starts: nothing, the empty
\* string, a key.
EnvValues == {Absent, "", ApiKey}

\* pollingInterval, the default of the constructor, in ms.
PollingInterval == 5000

\* No read-resource request has been answered.
NoResource == [kind |-> "none", uri |-> ""]
ShotUrl == "https://example.com"

\* The POST of screenshotWithURL in src/index.ts, which sends no headers.
ScreenshotRequest_NoKey(url, id, key) ==
    [method |-> "POST", path |-> "/screenshot", url |-> url, chat_id |-> id,
     apiKey |-> Absent]

\* POST /screenshot: body { url, chat_id }, header x-api-key
ScreenshotRequest(url, id, key) ==
    [method |-> "POST", path |-> "/screenshot", url |-> url, chat_id |-> id,
     apiKey |-> key]

\* The names of this.tools, which the tool-listing handler returns: the
\* screenshot entry is commented out.
ListedTools == {"scrape"}

\* { content: [{ type: 'text', text }], isError: false }
ToolText(text) == [content |-> <<[type |-> "text", text |-> text]>>, isError |-> FALSE]

\* The catch block, if it passed the error on instead of answering.
ToolError_Escapes(message) == [content |-> << >>, isError |-> FALSE]

\* { content: [{ type: 'text', text: `Error: ${message}` }], isError: true }
ToolError(message) ==
    [content |-> <<[type |-> "text", text |-> "Error: " \o message]>>, isError |-> TRUE]

UnknownToolMessage(name) == "Unknown tool: " \o name

\* The handler without its format tests: the default response, always.
FormatBranch_DefaultOnly(fmt, r) == "default"

\* The format the handler answers a scrape tool call in.
FormatBranch(fmt, r) ==
    IF fmt = "markdown" /\ Truthy(r.markdown) THEN "markdown"
    ELSE IF fmt = "screenshot" /\ Truthy(r.screenshot) THEN "screenshot"
    ELSE IF fmt = "json" /\ Truthy(r.data) THEN "json"
    ELSE "default"

ScreenshotText(url) ==
    "Screenshot taken successfully. You can view it via *MCP Resources* (Paperclip icon) @ URI: "
        \o "scraperis_screenshot://" \o url

\* The Markdown code fence, three grave accents in the source: a TLA+ string
\* cannot hold that character, and an apostrophe stands for each.
Fence == "'''"

JsonText(d) == "JSON Data:\n" \o Fence \o "json\n" \o StringifyDataIndented(d) \o "\n" \o Fence

FormatResponse(fmt, r) ==
    CASE FormatBranch(fmt, r) = "markdown" -> ToolText(r.markdown)
      [] FormatBranch(fmt, r) = "screenshot" -> ToolText(ScreenshotText(r.screenshot))
      [] FormatBranch(fmt, r) = "json" -> ToolText(JsonText(r.data))
      [] OTHER -> ToolText(Stringify(r))

\* The catch block of the handler of src/index.ts:
\* { content: [], isError: true }
MonoToolError == [content |-> << >>, isError |-> TRUE]

\* What the handler of src/index.ts answers a scrape tool call with. With
\* markdown or a screenshot in the payload it returns from inside the first
\* branch: the markdown, the screenshot text (a result without isError, which
\* a client reads as false), or the content list, which holds the JSON text
\* when json was asked for and data is there and is empty otherwise. Without
\* either it falls through to the default response.
MonoFormatResponse(fmt, r) ==
    IF Truthy(r.markdown) \/ Truthy(r.screenshot)
    THEN IF Truthy(r.markdown) /\ fmt = "markdown" THEN ToolText(r.markdown)
         ELSE IF Truthy(r.screenshot) /\ fmt = "screenshot"
              THEN ToolText(ScreenshotText(r.screenshot))
         ELSE IF fmt = "json" /\ Truthy(r.data) THEN ToolText(JsonText(r.data))
         ELSE [content |-> << >>, isError |-> FALSE]
    ELSE ToolText(Stringify(r))

\* ------------------------------------------------- the read-resource handler

\* The scheme of a screenshot resource URI, 'scraperis_screenshot://'.
Scheme == "scraperis_screenshot://"

\* A URL no scrape ever returned.
OtherUrl == "https://intranet.test/admin"

\* The uri of a read-resource request, as the parts it is made of: the scheme
\* followed by the URL of a screenshot, by another URL or by nothing, a URL
\* alone, the scheme twice, and the empty string.
ResourceUris ==
    {<<Scheme, u>> : u \in (ScreenshotValues \ {Absent}) \cup {OtherUrl}}
        \cup {<<OtherUrl>>, <<Scheme>>, <<Scheme, Scheme, OtherUrl>>, << >>}

\* The parts of a uri joined into the string they spell.
RECURSIVE JoinParts(_)
JoinParts(parts) ==
    IF parts = << >> THEN "" ELSE Head(parts) \o JoinParts(Tail(parts))

\* uri.replace(part, ''): the first occurrence of part is removed.
RECURSIVE Replace(_, _)
Replace(parts, part) ==
    IF parts = << >> THEN << >>
    ELSE IF Head(parts) = part THEN Tail(parts)
    ELSE <<Head(parts)>> \o Replace(Tail(parts), part)

\* { content: [{ uri, mimeType: 'image/png', blob }] }
ResourceBlob(url) == [kind |-> "blob", uri |-> url]

\* The rejection of the read-resource request with the message given.
ResourceError(message) == [kind |-> "error", uri |-> message]

\* ------------------------------------------ JSON text, character by character

\* The longest markdown text of the payloads that are rendered and parsed.
MaxTextLen == 2

DQ == "\""
BS == "\\"
NL == "\n"

\* The characters a text is made of: letters, and the ones JSON gives a meaning.
TextChars == {"a", "n", DQ, BS, NL, ",", "}"}

\* A field that is not there.
Undefined == <<Absent>>

Texts(maxLen) == UNION {[1..len -> TextChars] : len \in 0..maxLen}

UrlTexts == {<<"h">>, <<"h", "/", DQ>>, <<BS, "n">>}

\* The payloads of the quick format: markdown, screenshot (an object with a
\* url, null when there is none, or missing) and status.
QuickPayloads ==
    [markdown : Texts(MaxTextLen) \cup {Undefined},
     screenshot : [kind : {"object"}, url : UrlTexts \cup {Undefined}]
                    \cup {[kind |-> k, url |-> Undefined] : k \in {"null", "undefined"}},
     status : {Undefined, <<"completed">>}]

NoPayload ==
    [markdown |-> Undefined,
     screenshot |-> [kind |-> "undefined", url |-> Undefined],
     status |-> Undefined]

\* JSON.stringify of one character of a string, without the escapes.
EscapeChar_None(ch) == <<ch>>

\* JSON.stringify of one character of a string.
EscapeChar(ch) ==
    IF ch = DQ THEN <<BS, DQ>>
    ELSE IF ch = BS THEN <<BS, BS>>
    ELSE IF ch = NL THEN <<BS, "n">>
    ELSE <<ch>>

RECURSIVE EscapeChars(_)
EscapeChars(cs) ==
    IF cs = << >> THEN << >> ELSE EscapeChar(Head(cs)) \o EscapeChars(Tail(cs))

JsonString(cs) == <<DQ>> \o EscapeChars(cs) \o <<DQ>>

\* A key is written as one unit: it is an identifier and needs no escape.
JsonMember(key, valueText) == JsonString(<<key>>) \o <<":">> \o valueText

RECURSIVE JoinTexts(_)
JoinTexts(ts) ==
    IF ts = << >> THEN << >>
    ELSE IF Len(ts) = 1 THEN Head(ts)
    ELSE Head(ts) \o <<",">> \o JoinTexts(Tail(ts))

JsonObject(memberTexts) == <<"{">> \o JoinTexts(memberTexts) \o <<"}">>

JsonNull == <<"n", "u", "l", "l">>

\* JSON.stringify(handlerData): a member whose value is undefined is left out.
StringifyPayload(p) ==
    LET shot == IF p.screenshot.kind = "null" THEN JsonNull
                ELSE JsonObject(IF p.screenshot.url = Undefined THEN << >>
                                ELSE <<JsonMember("url", JsonString(p.screenshot.url))>>)
        members ==
            << <<p.markdown # Undefined, JsonMember("markdown", JsonString(p.markdown))>>,
               <<p.screenshot.kind # "undefined", JsonMember("screenshot", shot)>>,
               <<p.status # Undefined, JsonMember("status", JsonString(p.status))>> >>
        present == SelectSeq(members, LAMBDA m : m[1])
    IN  JsonObject([k \in 1..Len(present) |-> present[k][2]])

\* The values JSON.parse produces.
UndefinedValue == [kind |-> "undefined", chars |-> << >>, members |-> << >>]
NullValue == [kind |-> "null", chars |-> << >>, members |-> << >>]
StringValue(cs) == [kind |-> "string", chars |-> cs, members |-> << >>]
ObjectValue(ms) == [kind |-> "object", chars |-> << >>, members |-> ms]
SyntaxError == [kind |-> "SyntaxError", chars |-> << >>, members |-> << >>]

ParseFail == [ok |-> FALSE, val |-> UndefinedValue, next |-> 0]
ParseOk(v, n) == [ok |-> TRUE, val |-> v, next |-> n]

\* The character an escape sequence stands for.
Unescape(ch) == IF ch = "n" THEN NL ELSE ch

\* The characters of a string literal, from position i up to its closing quote.
RECURSIVE ScanString(_, _, _)
ScanString(t, i, acc) ==
    IF i > Len(t) \/ t[i] = NL THEN ParseFail
    ELSE IF t[i] = DQ THEN ParseOk(acc, i + 1)
    ELSE IF t[i] = BS
         THEN IF i + 1 > Len(t) \/ t[i + 1] \notin {DQ, BS, "n"} THEN ParseFail
              ELSE ScanString(t, i + 2, Append(acc, Unescape(t[i + 1])))
    ELSE ScanString(t, i + 1, Append(acc, t[i]))

RECURSIVE ParseValue(_, _)
RECURSIVE ParseMembers(_, _, _)
ParseValue(t, i) ==
    IF i > Len(t) THEN ParseFail
    ELSE IF t[i] = DQ
         THEN LET str == ScanString(t, i + 1, << >>)
              IN  IF str.ok THEN ParseOk(StringValue(str.val), str.next) ELSE ParseFail
    ELSE IF t[i] = "{"
         THEN IF i + 1 <= Len(t) /\ t[i + 1] = "}"
              THEN ParseOk(ObjectValue(<< >>), i + 2)
              ELSE ParseMembers(t, i + 1, << >>)
    ELSE IF i + 3 <= Len(t) /\ SubSeq(t, i, i + 3) = JsonNull
         THEN ParseOk(NullValue, i + 4)
    ELSE ParseFail

ParseMembers(t, i, acc) ==
    IF i > Len(t) \/ t[i] # DQ THEN ParseFail
    ELSE LET key == ScanString(t, i + 1, << >>)
         IN  IF ~key.ok \/ key.next > Len(t) \/ t[key.next] # ":" THEN ParseFail
             ELSE LET v == ParseValue(t, key.next + 1)
                  IN  IF ~v.ok \/ v.next > Len(t) THEN ParseFail
                      ELSE LET acc2 == Append(acc, [key |-> key.val, value |-> v.val])
                           IN  IF t[v.next] = "," THEN ParseMembers(t, v.next + 1, acc2)
                               ELSE IF t[v.next] = "}"
                                    THEN ParseOk(ObjectValue(acc2), v.next + 1)
                               ELSE ParseFail

\* JSON.parse(text)
JsonParse(t) ==
    LET r == ParseValue(t, 1)
    IN  IF r.ok /\ r.next = Len(t) + 1 THEN r.val ELSE SyntaxError

\* value[key], undefined when value is no object or has no such member.
Property(value, key) ==
    IF value.kind # "object" THEN UndefinedValue
    ELSE LET hits == SelectSeq(value.members, LAMBDA m : m.key = <<key>>)
         IN  IF hits = << >> THEN UndefinedValue ELSE hits[Len(hits)].value

\* The text of a string value, Undefined for anything else.
TextOf(value) == IF value.kind = "string" THEN value.chars ELSE Undefined

\* this.screenshots.set(key, url) on a Map held as its set of entries.
MapSet(map, key, url) == {e \in map : e[1] # key} \cup {<<key, url>>}

\* PollDecision without the `processing === true` test.
PollDecision_NoProcessingTest(r) ==
    IF Truthy(r.status) /\ IsTerminalStatus(r.status)
    THEN IF Truthy(r.error) THEN "thrown"
         ELSE IF ~HasData(r) THEN "sleep"
         ELSE "ready"
    ELSE "sleep"

\* PollDecision without the "do we have actual data" test.
PollDecision_NoDataTest(r) ==
    IF r.processing = "true" THEN "sleep"
    ELSE IF Truthy(r.status) /\ IsTerminalStatus(r.status)
         THEN IF Truthy(r.error) THEN "thrown" ELSE "ready"
         ELSE "sleep"

\* The decision scrape takes on one poll response: where the loop goes next.
PollDecision(r) ==
    IF r.processing = "true" THEN "sleep"
    ELSE IF Truthy(r.status) /\ IsTerminalStatus(r.status)
         THEN IF Truthy(r.error) THEN "thrown"
              ELSE IF ~HasData(r) THEN "sleep"
              ELSE "ready"
         ELSE "sleep"

\* -------------------------------------------------------------------- state

VARIABLES
    run,            \* the kind of run: "api" (one invocation, long),
                    \* "pair" (two concurrent invocations, short),
                    \* "cancel" (one invocation the caller may cancel, short),
                    \* "server" (one tool call through the handler, short),
                    \* "sink" (one invocation with any kind of sink, short),
                    \* "mono" (one tool call on src/index.ts, short),
                    \* "monopair" (two tool calls on src/index.ts, short),
                    \* "startup" (the process from its first statement on)
    tool,           \* request.params.name of the tool call
    format,         \* the format argument of a scrape tool call
    progressToken,  \* request.params._meta?.progressToken
    handler,        \* position of the tool-call handler of each call
    toolResult,     \* what the handler returned to the MCP client
    screenshots,    \* the screenshot registry of the server: <<key, url>> pairs
    cancelled,      \* the caller has triggered its cancellation signal
    calls,          \* the invocations of scrape of this run
    nextId,         \* how many ids generateChatId has handed out, plus one
    chatId,         \* the chat_id of each invocation
    submitChatId,   \* the chat_id the submit call of the invocation carried
    pollChatIds,    \* the chat_ids the polls of the invocation carried
    pc,             \* position of each invocation
    sink,           \* "ok" when onProgress was supplied (its promise resolves),
                    \* "fails" when its promise rejects, "hangs" when its
                    \* promise never settles,
                    \* "none" when it was not
    data,           \* the submit response, until the loop starts
    fetchCount,     \* the loop counter
    scraperData,    \* the poll response of the current loop iteration
    polls,          \* number of GET /get_data calls issued
    submits,        \* number of POST /extract_prompt calls issued
    notifications,  \* the values passed to onProgress, in order
    result,         \* the payload the promise resolved with
    failure,        \* the error the promise rejected with
    rejected,       \* number of remote calls of the invocation that rejected
    sent,           \* the notifications/progress params the server emitted
    pollFormats,    \* the formats the GET /get_data calls asked for
    shots,          \* the POST /screenshot requests issued
    quickPayload,   \* a payload scrape returned to a tool call with format quick
    quickBody,      \* the text the handler answered with, character by character
    quickParsed,    \* what JSON.parse makes of that text
    quickStage,     \* "input", "rendered", "parsed"; "off" in the other runs
    sleeps,         \* number of delays of the invocation that have elapsed
    delays,         \* the durations, in ms, the invocation has slept
    process,        \* "start", "validated", "constructed", "connected", and
                    \* "exit-1" after process.exit(1)
    envKey,         \* process.env.SCRAPERIS_API_KEY
    fetched,        \* the URLs the read-resource handler has fetched
    resourceResult  \* what the read-resource handler answered

vars == <<tool, format, progressToken, handler, toolResult, screenshots, run, cancelled, calls, nextId, chatId, submitChatId, pollChatIds, pc, sink, data, fetchCount, scraperData, polls, submits,
          notifications, result, failure, rejected, sent, pollFormats, shots,
          quickPayload, quickBody, quickParsed, quickStage,
          sleeps, delays, process, envKey, fetched, resourceResult>>

\* The scaffolding of the run and the ids, for the actions that leave them alone.
idVars == <<nextId, chatId, submitChatId, pollChatIds>>

\* The delays of the poll loop.
timeVars == <<sleeps, delays>>

\* The process, its environment and its read-resource handler.
hostVars == <<process, envKey, fetched, resourceResult>>

\* The rendering of one payload in the quick format.
quickVars == <<quickPayload, quickBody, quickParsed, quickStage>>

\* What went out on the wire besides the counted calls.
wireVars == <<sent, pollFormats, shots>>

\* The state of the tool-call handler, which scrape never touches.
handlerVars == <<tool, format, progressToken, handler, toolResult, screenshots>>

\* The cap and the remote answers of the run.
PollCap == IF run = "api" THEN MaxPolls ELSE MaxPollsShort

SubmitInputs ==
    IF run \in {"pair", "monopair"} THEN ShortSubmitResponses
    ELSE IF run \in {"server", "startup", "mono"} THEN ServerSubmitResponses
    ELSE SubmitResponses

PollInputs ==
    IF run \in {"pair", "monopair"} THEN ShortPollResponses
    ELSE IF run \in {"server", "startup", "mono"} THEN ServerPollResponses
    ELSE PollResponses

\* onProgress(value) on the sink of invocation c.
Notify(c, value) ==
    /\ notifications' =
          IF sink[c] # "none"
          THEN [notifications EXCEPT ![c] = Append(@, value)]
          ELSE notifications
    /\ sent' =
          IF sink[c] # "none" /\ run \in {"server", "startup"}
          THEN [sent EXCEPT ![c] = Append(@, ProgressParams(value, progressToken[c]))]
          ELSE sent

\* `await onProgress(value)`: scrape goes on to next when there is no sink or
\* the promise resolves, throws what the promise rejects with, and stays
\* suspended while the promise is pending.
AwaitProgress(c, next) ==
    /\ pc' = [pc EXCEPT ![c] =
                 CASE sink[c] = "fails" -> "thrown"
                   [] sink[c] = "hangs" -> "blocked"
                   [] OTHER -> next]
    /\ failure' = IF sink[c] = "fails"
                  THEN [failure EXCEPT ![c] = SinkError]
                  ELSE failure

\* The sinks a run of each kind may be given.
SinkKinds(kind) == IF kind = "sink" THEN {"ok", "fails", "hangs"} ELSE {"none", "ok"}

InitCalls(active, kind) ==
    /\ run = kind
    /\ cancelled = [c \in CallIds |-> FALSE]
    /\ calls = active
    /\ nextId = 1
    /\ chatId = [c \in CallIds |-> Absent]
    /\ submitChatId = [c \in CallIds |-> Absent]
    /\ pollChatIds = [c \in CallIds |-> {}]
    /\ pc = [c \in CallIds |-> "idle"]
    /\ sink \in [CallIds -> SinkKinds(kind) \cup {"none"}]
    /\ \A c \in CallIds \ active : sink[c] = "none"
    /\ \A c \in active : sink[c] \in SinkKinds(kind)
    /\ data = [c \in CallIds |-> NoResponse]
    /\ fetchCount = [c \in CallIds |-> 0]
    /\ scraperData = [c \in CallIds |-> NoResponse]
    /\ polls = [c \in CallIds |-> 0]
    /\ submits = [c \in CallIds |-> 0]
    /\ notifications = [c \in CallIds |-> << >>]
    /\ result = [c \in CallIds |-> NoResponse]
    /\ failure = [c \in CallIds |-> NoError]
    /\ rejected = [c \in CallIds |-> 0]
    /\ sent = [c \in CallIds |-> << >>]
    /\ pollFormats = [c \in CallIds |-> {}]
    /\ shots = [c \in CallIds |-> << >>]
    /\ quickPayload \in (IF kind = "quick" THEN QuickPayloads ELSE {NoPayload})
    /\ quickBody = << >>
    /\ quickParsed = UndefinedValue
    /\ quickStage = IF kind = "quick" THEN "input" ELSE "off"
    /\ sleeps = [c \in CallIds |-> 0]
    /\ delays = [c \in CallIds |-> {}]
    /\ process = IF kind = "startup" THEN "start" ELSE "connected"
    /\ envKey \in (IF kind = "startup" THEN EnvValues ELSE {ApiKey})
    /\ fetched = {}
    /\ resourceResult = NoResource

\* scrape is called directly, as the unit tests call it: no tool call.
NoHandler ==
    /\ tool = [c \in CallIds |-> Absent]
    /\ format = [c \in CallIds |-> Absent]
    /\ progressToken = [c \in CallIds |-> Absent]
    /\ handler = [c \in CallIds |-> "none"]
    /\ toolResult = [c \in CallIds |-> NoResult]
    /\ screenshots = {}

Init == InitCalls({"call1"}, "api") /\ NoHandler

\* One invocation whose caller may cancel the request.
InitCancel == InitCalls({"call1"}, "cancel") /\ NoHandler

\* One invocation whose sink may reject or never answer.
InitSink == InitCalls({"call1"}, "sink") /\ NoHandler

\* Scrape tool calls arrive at the single-file server of src/index.ts: any
\* format, with or without a progress token. That server has no onProgress
\* callback; it sends its notifications itself.
InitMonoCalls(active, kind, formats, tokens) ==
    /\ InitCalls(active, kind)
    /\ sink = [c \in CallIds |-> "none"]
    /\ tool = [c \in CallIds |-> IF c \in calls THEN "scrape" ELSE Absent]
    /\ format \in [CallIds -> formats \cup {Absent}]
    /\ progressToken \in [CallIds -> tokens \cup {Absent}]
    /\ \A c \in CallIds :
          /\ (format[c] # Absent) = (c \in calls)
          /\ c \notin calls => progressToken[c] = Absent
    /\ handler = [c \in CallIds |-> "idle"]
    /\ toolResult = [c \in CallIds |-> NoResult]
    /\ screenshots = {}

\* One scrape tool call on the single-file server.
InitMono == InitMonoCalls({"call1"}, "mono", Formats, ProgressTokens)

\* Two scrape tool calls in flight on the single-file server.
InitMonoPair == InitMonoCalls(CallIds, "monopair", {"markdown"}, {"tok-1"})

\* Two tool calls in flight on the same server, each with its own scrape.
InitPair == InitCalls(CallIds, "pair") /\ NoHandler

\* One tool call arrives at the server: any tool name, any format, with or
\* without a progress token. onProgress exists exactly when the token is
\* truthy.
InitServerCalls(kind) ==
    /\ InitCalls({"call1"}, kind)
    /\ tool \in [CallIds -> ToolNames \cup {Absent}]
    /\ format \in [CallIds -> Formats \cup {Absent}]
    /\ progressToken \in [CallIds -> ProgressTokens]
    /\ \A c \in CallIds :
          /\ (c \in calls) = (tool[c] # Absent)
          /\ (format[c] # Absent) = (tool[c] = "scrape")
          /\ c \notin calls => progressToken[c] = Absent
          /\ sink[c] = IF tool[c] = "scrape" /\ Truthy(progressToken[c])
                       THEN "ok" ELSE "none"
    /\ handler = [c \in CallIds |-> "idle"]
    /\ toolResult = [c \in CallIds |-> NoResult]
    /\ screenshots = {}

InitServer == InitServerCalls("server")

\* The process starts: SCRAPERIS_API_KEY holds anything or nothing, and the
\* tool call arrives whenever the client sends it.
InitStartup == InitServerCalls("startup")

\* scrape(prompt, format, onProgress) is called: the chat_id is generated and
\* the POST, which carries it, is issued.
Start(c) ==
    /\ pc[c] = "idle"
    /\ handler[c] \in {"none", "scrape"}
    /\ chatId' = [chatId EXCEPT ![c] = generateChatId(nextId)]
    /\ nextId' = nextId + 1
    /\ submitChatId' = [submitChatId EXCEPT ![c] = chatId'[c]]
    /\ pc' = [pc EXCEPT ![c] = "submit"]
    /\ submits' = [submits EXCEPT ![c] = @ + 1]
    /\ UNCHANGED <<hostVars, timeVars, quickVars, wireVars, handlerVars, run, cancelled, calls, pollChatIds, data, rejected, sink, fetchCount, scraperData, polls, notifications,
                   result, failure>>

\* Submit without the job_id test: the loop is entered whatever the answer.
Submit_AlwaysPolls(c) ==
    /\ pc[c] = "submit"
    /\ \E resp \in SubmitInputs :
        /\ data' = [data EXCEPT ![c] = resp]
        /\ pc' = [pc EXCEPT ![c] = "loop"]
    /\ UNCHANGED <<hostVars, timeVars, quickVars, wireVars, handlerVars, run, cancelled, calls, idVars, rejected, sink, fetchCount, scraperData, polls,
                   submits, notifications, result, failure>>

\* The submit call answers with `data`.
Submit(c) ==
    /\ pc[c] = "submit"
    /\ \E resp \in SubmitInputs :
        /\ data' = [data EXCEPT ![c] = resp]
        /\ IF ~Truthy(resp.job_id)
           THEN /\ pc' = [pc EXCEPT ![c] = "returned"]
                /\ result' = [result EXCEPT ![c] = resp]
           ELSE /\ pc' = [pc EXCEPT ![c] = "loop"]
                /\ UNCHANGED result
    /\ UNCHANGED <<hostVars, timeVars, quickVars, wireVars, handlerVars, run, cancelled, calls, idVars, rejected, sink, fetchCount, scraperData, polls, submits,
                   notifications, failure>>

\* The submit call, or the parse of its body, rejects.
SubmitFails(c) ==
    /\ pc[c] = "submit"
    /\ pc' = [pc EXCEPT ![c] = "thrown"]
    /\ failure' = [failure EXCEPT ![c] = TransportError]
    /\ rejected' = [rejected EXCEPT ![c] = @ + 1]
    /\ UNCHANGED <<hostVars, timeVars, quickVars, wireVars, handlerVars, run, cancelled, calls, idVars, data, sink, fetchCount, scraperData, polls, submits,
                   notifications, result>>

\* LoopHead with an iteration cap: after 60 iterations the loop is left and
\* 'Polling ended without data' is thrown.
LoopHead_Capped(c) ==
    /\ pc[c] = "loop"
    /\ fetchCount[c] < PollCap
    /\ IF fetchCount[c] >= 60
       THEN /\ pc' = [pc EXCEPT ![c] = "thrown"]
            /\ failure' = [failure EXCEPT ![c] =
                  [kind |-> "job", message |-> "Polling ended without data"]]
            /\ UNCHANGED <<sent, fetchCount, notifications, scraperData, data>>
       ELSE /\ fetchCount' = [fetchCount EXCEPT ![c] = @ + 1]
            /\ Notify(c, fetchCount[c] + 1)
            /\ scraperData' = [scraperData EXCEPT ![c] = NoResponse]
            /\ data' = [data EXCEPT ![c] = NoResponse]
            /\ pc' = [pc EXCEPT ![c] = "poll"]
            /\ UNCHANGED failure
    /\ UNCHANGED <<hostVars, timeVars, quickVars, pollFormats, shots, handlerVars, run, cancelled, calls, idVars, rejected, sink, polls, submits, result>>

\* LoopHead without the progress report.
LoopHead_NoProgress(c) ==
    /\ pc[c] = "loop"
    /\ fetchCount[c] < PollCap
    /\ fetchCount' = [fetchCount EXCEPT ![c] = @ + 1]
    /\ scraperData' = [scraperData EXCEPT ![c] = NoResponse]
    /\ data' = [data EXCEPT ![c] = NoResponse]
    /\ pc' = [pc EXCEPT ![c] = "poll"]
    /\ UNCHANGED <<hostVars, timeVars, quickVars, wireVars, handlerVars, run, cancelled, calls, idVars, rejected, sink, polls, submits, notifications,
                   result, failure>>

\* LoopHead that reports the counter before it increments it.
LoopHead_ReportsPrevious(c) ==
    /\ pc[c] = "loop"
    /\ fetchCount[c] < PollCap
    /\ fetchCount' = [fetchCount EXCEPT ![c] = @ + 1]
    /\ Notify(c, fetchCount[c])
    /\ AwaitProgress(c, "poll")
    /\ scraperData' = [scraperData EXCEPT ![c] = NoResponse]
    /\ data' = [data EXCEPT ![c] = NoResponse]
    /\ UNCHANGED <<hostVars, timeVars, quickVars, pollFormats, shots, handlerVars, run, cancelled, calls, idVars, rejected, sink, polls, submits, result>>

\* LoopHead with fetchCount held once for the whole client instead of once
\* for each invocation.
LoopHead_SharedCounter(c) ==
    /\ pc[c] = "loop"
    /\ fetchCount[c] < PollCap
    /\ fetchCount' = [d \in CallIds |-> IF d \in calls THEN fetchCount[c] + 1 ELSE fetchCount[d]]
    /\ Notify(c, fetchCount[c] + 1)
    /\ scraperData' = [scraperData EXCEPT ![c] = NoResponse]
    /\ data' = [data EXCEPT ![c] = NoResponse]
    /\ pc' = [pc EXCEPT ![c] = "poll"]
    /\ UNCHANGED <<hostVars, timeVars, quickVars, pollFormats, shots, handlerVars, run, cancelled, calls, idVars, rejected, sink, polls, submits, result, failure>>

\* Top of the loop: fetchCount++, then onProgress(fetchCount).
\* scraperData is a binding of the loop body: a new iteration starts without one.
\* data is not read after the job_id test: the model drops it when the first
\* iteration starts.
LoopHead(c) ==
    /\ pc[c] = "loop"
    /\ fetchCount[c] < PollCap
    /\ fetchCount' = [fetchCount EXCEPT ![c] = @ + 1]
    /\ Notify(c, fetchCount[c] + 1)
    /\ AwaitProgress(c, "poll")
    /\ scraperData' = [scraperData EXCEPT ![c] = NoResponse]
    /\ data' = [data EXCEPT ![c] = NoResponse]
    /\ UNCHANGED <<hostVars, timeVars, quickVars, pollFormats, shots, handlerVars, run, cancelled, calls, idVars, rejected, sink, polls, submits, result>>

\* Get the current status: the GET, whose URL carries the chat_id, is issued.
IssuePoll(c) ==
    /\ pc[c] = "poll"
    /\ polls' = [polls EXCEPT ![c] = @ + 1]
    /\ pollChatIds' = [pollChatIds EXCEPT ![c] = @ \cup {chatId[c]}]
    /\ pollFormats' = [pollFormats EXCEPT ![c] = @ \cup {"quick"}]
    /\ pc' = [pc EXCEPT ![c] = "fetch"]
    /\ UNCHANGED <<hostVars, timeVars, quickVars, sent, shots, handlerVars, run, cancelled, calls, nextId, chatId, submitChatId, data, rejected, sink, fetchCount, scraperData, submits,
                   notifications, result, failure>>

\* The poll answers with scraperData and scrape decides on it.
Poll(c) ==
    /\ pc[c] = "fetch"
    /\ \E resp \in PollInputs :
        /\ scraperData' = [scraperData EXCEPT ![c] = resp]
        /\ pc' = [pc EXCEPT ![c] = PollDecision(resp)]
        /\ failure' =
             IF PollDecision(resp) = "thrown"
             THEN [failure EXCEPT ![c] = JobError(resp.error)]
             ELSE failure
    /\ UNCHANGED <<hostVars, timeVars, quickVars, wireVars, handlerVars, run, cancelled, calls, idVars, data, rejected, sink, fetchCount, polls, submits, notifications,
                   result>>

\* PollFails that swallows the rejection and retries at the next tick.
PollFails_Retry(c) ==
    /\ pc[c] = "fetch"
    /\ pc' = [pc EXCEPT ![c] = "sleep"]
    /\ rejected' = [rejected EXCEPT ![c] = @ + 1]
    /\ UNCHANGED <<hostVars, timeVars, quickVars, wireVars, handlerVars, run, cancelled, calls, idVars, data, sink, fetchCount, scraperData, polls, submits,
                   notifications, result, failure>>

\* The poll, or the parse of its body, rejects.
PollFails(c) ==
    /\ pc[c] = "fetch"
    /\ pc' = [pc EXCEPT ![c] = "thrown"]
    /\ failure' = [failure EXCEPT ![c] = TransportError]
    /\ rejected' = [rejected EXCEPT ![c] = @ + 1]
    /\ UNCHANGED <<hostVars, timeVars, quickVars, wireVars, handlerVars, run, cancelled, calls, idVars, data, sink, fetchCount, scraperData, polls, submits,
                   notifications, result>>

\* Sleep with a delay that grows with the number of polls.
Sleep_Backoff(c) ==
    /\ pc[c] = "sleep"
    /\ pc' = [pc EXCEPT ![c] = "loop"]
    /\ sleeps' = [sleeps EXCEPT ![c] = @ + 1]
    /\ delays' = [delays EXCEPT ![c] = @ \cup {PollingInterval * fetchCount[c]}]
    /\ UNCHANGED <<hostVars, quickVars, wireVars, handlerVars, run, cancelled, calls, idVars, data, rejected, sink, fetchCount, scraperData, polls, submits,
                   notifications, result, failure>>

\* sleep(pollingInterval) elapses.
Sleep(c) ==
    /\ pc[c] = "sleep"
    /\ pc' = [pc EXCEPT ![c] = "loop"]
    /\ sleeps' = [sleeps EXCEPT ![c] = @ + 1]
    /\ delays' = [delays EXCEPT ![c] = @ \cup {PollingInterval}]
    /\ UNCHANGED <<hostVars, quickVars, wireVars, handlerVars, run, cancelled, calls, idVars, data, rejected, sink, fetchCount, scraperData, polls, submits,
                   notifications, result, failure>>

\* ReportDone without the onProgress(100) call.
ReportDone_Silent(c) ==
    /\ pc[c] = "ready"
    /\ pc' = [pc EXCEPT ![c] = "return"]
    /\ UNCHANGED <<hostVars, timeVars, quickVars, wireVars, handlerVars, run, cancelled, calls, idVars, data, rejected, sink, fetchCount, scraperData, polls, submits,
                   notifications, result, failure>>

\* Report 100% progress.
ReportDone(c) ==
    /\ pc[c] = "ready"
    /\ Notify(c, Hundred)
    /\ AwaitProgress(c, "return")
    /\ UNCHANGED <<hostVars, timeVars, quickVars, pollFormats, shots, handlerVars, run, cancelled, calls, idVars, data, rejected, sink, fetchCount, scraperData, polls, submits,
                   result>>

\* Return that rewrites the status of the payload it returns.
Return_Synthesized(c) ==
    /\ pc[c] = "return"
    /\ pc' = [pc EXCEPT ![c] = "returned"]
    /\ result' = [result EXCEPT ![c] =
                    [scraperData[c] EXCEPT !.status = "completed",
                                           !.processing = "false"]]
    /\ UNCHANGED <<hostVars, timeVars, quickVars, wireVars, handlerVars, run, cancelled, calls, idVars, data, rejected, sink, fetchCount, scraperData, polls,
                   submits, notifications, failure>>

\* polling = false; return scraperData
Return(c) ==
    /\ pc[c] = "return"
    /\ pc' = [pc EXCEPT ![c] = "returned"]
    /\ result' = [result EXCEPT ![c] = scraperData[c]]
    /\ UNCHANGED <<hostVars, timeVars, quickVars, wireVars, handlerVars, run, cancelled, calls, idVars, data, rejected, sink, fetchCount, scraperData, polls, submits,
                   notifications, failure>>

\* The caller cancels the request while scrape is in its poll loop. The
\* request's signal is all that changes: scrape takes no signal and reads none.
Cancel(c) ==
    /\ pc[c] \in {"loop", "poll", "fetch", "sleep"}
    /\ ~cancelled[c]
    /\ cancelled' = [cancelled EXCEPT ![c] = TRUE]
    /\ UNCHANGED <<hostVars, timeVars, quickVars, wireVars, handlerVars, run, calls, idVars, pc, sink, data, fetchCount, scraperData,
                   polls, submits, notifications, result, failure, rejected>>

\* The MCP request reaches the handler: a scrape tool call builds onProgress
\* and calls scrape, a screenshot tool call calls screenshot, and any other
\* name throws 'Unknown tool', which the catch block answers.
HandlerReceive(c) ==
    /\ process = "connected"
    /\ handler[c] = "idle"
    /\ IF tool[c] \in {"scrape", "screenshot"}
       THEN /\ handler' = [handler EXCEPT ![c] = tool[c]]
            /\ UNCHANGED toolResult
       ELSE /\ handler' = [handler EXCEPT ![c] = "done"]
            /\ toolResult' = [toolResult EXCEPT ![c] = ToolError(UnknownToolMessage(tool[c]))]
    /\ UNCHANGED <<hostVars, timeVars, quickVars, wireVars, tool, format, progressToken, screenshots, run, cancelled, calls, idVars,
                   pc, sink, data, fetchCount, scraperData, polls, submits,
                   notifications, result, failure, rejected>>

\* screenshot(url) is called: the chat_id is generated and POST /screenshot,
\* which carries it, is issued.
ApiScreenshot(c) ==
    /\ handler[c] = "screenshot"
    /\ pc[c] = "idle"
    /\ chatId' = [chatId EXCEPT ![c] = generateChatId(nextId)]
    /\ nextId' = nextId + 1
    /\ shots' = [shots EXCEPT ![c] =
                    Append(@, ScreenshotRequest(ShotUrl, generateChatId(nextId), envKey))]
    /\ pc' = [pc EXCEPT ![c] = "shot"]
    /\ UNCHANGED <<hostVars, timeVars, quickVars, sent, pollFormats, handlerVars, run, cancelled, calls, submitChatId, pollChatIds, sink,
                   data, fetchCount, scraperData, polls, submits, notifications,
                   result, failure, rejected>>

\* POST /screenshot answers and its body parses: screenshot resolves with it.
ScreenshotAnswers(c) ==
    /\ pc[c] = "shot"
    /\ \E resp \in ScreenshotResponses :
        result' = [result EXCEPT ![c] = resp]
    /\ pc' = [pc EXCEPT ![c] = "returned"]
    /\ UNCHANGED <<hostVars, timeVars, quickVars, wireVars, handlerVars, run, cancelled, calls, idVars, sink, data, fetchCount,
                   scraperData, polls, submits, notifications, failure, rejected>>

\* POST /screenshot, or the parse of its body, rejects.
ScreenshotFails(c) ==
    /\ pc[c] = "shot"
    /\ pc' = [pc EXCEPT ![c] = "thrown"]
    /\ failure' = [failure EXCEPT ![c] = TransportError]
    /\ rejected' = [rejected EXCEPT ![c] = @ + 1]
    /\ UNCHANGED <<hostVars, timeVars, quickVars, wireVars, handlerVars, run, cancelled, calls, idVars, sink, data, fetchCount,
                   scraperData, polls, submits, notifications, result>>

\* The awaited call resolved: the handler answers in the format asked for,
\* and registers the screenshot when it answers with one.
HandlerReturn(c) ==
    /\ handler[c] \in {"scrape", "screenshot"}
    /\ pc[c] = "returned"
    /\ handler' = [handler EXCEPT ![c] = "done"]
    /\ toolResult' =
          [toolResult EXCEPT ![c] =
              IF tool[c] = "scrape"
              THEN FormatResponse(format[c], result[c])
              ELSE ToolText(Stringify(result[c]))]
    /\ screenshots' =
          IF tool[c] = "scrape" /\ FormatBranch(format[c], result[c]) = "screenshot"
          THEN MapSet(screenshots,
                      IF Truthy(result[c].url) THEN result[c].url ELSE "",
                      result[c].screenshot)
          ELSE screenshots
    /\ UNCHANGED <<hostVars, timeVars, quickVars, wireVars, tool, format, progressToken, run, cancelled, calls, idVars,
                   pc, sink, data, fetchCount, scraperData, polls, submits,
                   notifications, result, failure, rejected>>

\* The awaited call rejected: the catch block answers with the message.
HandlerCatch(c) ==
    /\ handler[c] \in {"scrape", "screenshot"}
    /\ pc[c] = "thrown"
    /\ handler' = [handler EXCEPT ![c] = "done"]
    /\ toolResult' = [toolResult EXCEPT ![c] = ToolError(failure[c].message)]
    /\ UNCHANGED <<hostVars, timeVars, quickVars, wireVars, tool, format, progressToken, screenshots, run, cancelled, calls, idVars,
                   pc, sink, data, fetchCount, scraperData, polls, submits,
                   notifications, result, failure, rejected>>

Next ==
    \/ \E c \in calls : Start(c)
    \/ \E c \in calls : Submit(c)
    \/ \E c \in calls : SubmitFails(c)
    \/ \E c \in calls : LoopHead(c)
    \/ \E c \in calls : IssuePoll(c)
    \/ \E c \in calls : Poll(c)
    \/ \E c \in calls : PollFails(c)
    \/ \E c \in calls : Sleep(c)
    \/ \E c \in calls : ReportDone(c)
    \/ \E c \in calls : Return(c)

Spec == Init /\ [][Next]_vars

\* The steps of one invocation.
CallStep(c) ==
    \/ Start(c)
    \/ Submit(c)
    \/ SubmitFails(c)
    \/ LoopHead(c)
    \/ IssuePoll(c)
    \/ Poll(c)
    \/ PollFails(c)
    \/ Sleep(c)
    \/ ReportDone(c)
    \/ Return(c)

PairSpec == InitPair /\ [][Next]_vars

NextCancel ==
    \/ Next
    \/ \E c \in calls : Cancel(c)

CancelSpec == InitCancel /\ [][NextCancel]_vars

SinkSpec == InitSink /\ [][Next]_vars

\* ------------------------------------------------- the quick format

\* Any payload scrape may have returned to a tool call with format quick.
InitQuick == InitCalls({}, "quick") /\ NoHandler

\* format quick matches none of the format tests: the handler answers with
\* the default response, JSON.stringify(handlerData).
RenderQuick ==
    /\ quickStage = "input"
    /\ FormatBranch("quick", NoResponse) = "default"
    /\ quickBody' = StringifyPayload(quickPayload)
    /\ quickStage' = "rendered"
    /\ UNCHANGED <<hostVars, timeVars, quickPayload, quickParsed, wireVars, handlerVars, run, cancelled, calls,
                   idVars, pc, sink, data, fetchCount, scraperData, polls, submits,
                   notifications, result, failure, rejected>>

\* The caller parses the body it received.
ParseQuick ==
    /\ quickStage = "rendered"
    /\ quickParsed' = JsonParse(quickBody)
    /\ quickStage' = "parsed"
    /\ UNCHANGED <<hostVars, timeVars, quickPayload, quickBody, wireVars, handlerVars, run, cancelled, calls,
                   idVars, pc, sink, data, fetchCount, scraperData, polls, submits,
                   notifications, result, failure, rejected>>

NextQuick ==
    \/ RenderQuick
    \/ ParseQuick

QuickSpec == InitQuick /\ [][NextQuick]_vars

\* ---------------------------------- scrapeWithPrompt of src/index.ts

\* The submit call answers with data. scraperData starts as {} and is what
\* the function returns when no job_id came back.
MonoSubmit(c) ==
    /\ pc[c] = "submit"
    /\ \E resp \in SubmitInputs :
        /\ data' = [data EXCEPT ![c] = resp]
        /\ IF Truthy(resp.job_id)
           THEN /\ pc' = [pc EXCEPT ![c] = "loop"]
                /\ UNCHANGED result
           ELSE /\ pc' = [pc EXCEPT ![c] = "returned"]
                /\ result' = [result EXCEPT ![c] = NoResponse]
    /\ UNCHANGED <<hostVars, timeVars, quickVars, wireVars, handlerVars, run, cancelled, calls, idVars, rejected, sink,
                   fetchCount, scraperData, polls, submits, notifications, failure>>

\* Top of the loop: fetchCount++, then, when progressToken !== undefined, a
\* notifications/progress whose progressToken is the chat_id. scraperData is
\* assigned by every poll before it is read: the model clears it here.
MonoLoopHead(c) ==
    /\ pc[c] = "loop"
    /\ fetchCount[c] < PollCap
    /\ fetchCount' = [fetchCount EXCEPT ![c] = @ + 1]
    /\ sent' =
          IF progressToken[c] # Absent
          THEN [sent EXCEPT ![c] = Append(@, ProgressParams(fetchCount[c] + 1, chatId[c]))]
          ELSE sent
    /\ scraperData' = [scraperData EXCEPT ![c] = NoResponse]
    /\ data' = [data EXCEPT ![c] = NoResponse]
    /\ pc' = [pc EXCEPT ![c] = "poll"]
    /\ UNCHANGED <<hostVars, timeVars, quickVars, pollFormats, shots, handlerVars, run, cancelled, calls, idVars, rejected,
                   sink, polls, submits, notifications, result, failure>>

\* The poll answers with scraperData: the same tests as scrape, but a
\* terminal status with an error ends the process, process.exit(1).
MonoPoll(c) ==
    /\ pc[c] = "fetch"
    /\ \E resp \in PollInputs :
        /\ scraperData' = [scraperData EXCEPT ![c] = resp]
        /\ pc' = [pc EXCEPT ![c] =
                     IF PollDecision(resp) = "thrown" THEN "exited"
                     ELSE PollDecision(resp)]
        /\ process' = IF PollDecision(resp) = "thrown" THEN "exit-1" ELSE process
    /\ UNCHANGED <<envKey, fetched, resourceResult, timeVars, quickVars, wireVars, handlerVars, run, cancelled, calls, idVars, data, rejected, sink,
                   fetchCount, polls, submits, notifications, result, failure>>

\* Data arrived: notifications/progress 100, whether or not the request had
\* a progress token, again with the chat_id as progressToken; then break.
MonoReportDone(c) ==
    /\ pc[c] = "ready"
    /\ sent' = [sent EXCEPT ![c] = Append(@, ProgressParams(Hundred, chatId[c]))]
    /\ pc' = [pc EXCEPT ![c] = "return"]
    /\ UNCHANGED <<hostVars, timeVars, quickVars, pollFormats, shots, handlerVars, run, cancelled, calls, idVars, data,
                   rejected, sink, fetchCount, scraperData, polls, submits,
                   notifications, result, failure>>

\* The MCP request reaches the handler of src/index.ts, which calls
\* scrapeWithPrompt(prompt, format, progressToken).
MonoHandlerReceive(c) ==
    /\ handler[c] = "idle"
    /\ tool[c] = "scrape"
    /\ handler' = [handler EXCEPT ![c] = "scrape"]
    /\ UNCHANGED <<hostVars, timeVars, quickVars, wireVars, tool, format, progressToken, toolResult, screenshots, run, cancelled, calls, idVars,
                   pc, sink, data, fetchCount, scraperData, polls, submits,
                   notifications, result, failure, rejected>>

\* scrapeWithPrompt resolved: the handler answers, and registers the
\* screenshot, under handlerData.url, when it answers with one.
MonoHandlerReturn(c) ==
    /\ handler[c] = "scrape"
    /\ pc[c] = "returned"
    /\ handler' = [handler EXCEPT ![c] = "done"]
    /\ toolResult' = [toolResult EXCEPT ![c] = MonoFormatResponse(format[c], result[c])]
    /\ screenshots' =
          IF format[c] = "screenshot" /\ Truthy(result[c].screenshot)
          THEN MapSet(screenshots, result[c].url, result[c].screenshot)
          ELSE screenshots
    /\ UNCHANGED <<hostVars, timeVars, quickVars, wireVars, tool, format, progressToken, run, cancelled, calls, idVars,
                   pc, sink, data, fetchCount, scraperData, polls, submits,
                   notifications, result, failure, rejected>>

\* scrapeWithPrompt rejected: the catch block answers with an empty content
\* list and isError true.
MonoHandlerCatch(c) ==
    /\ handler[c] = "scrape"
    /\ pc[c] = "thrown"
    /\ handler' = [handler EXCEPT ![c] = "done"]
    /\ toolResult' = [toolResult EXCEPT ![c] = MonoToolError]
    /\ UNCHANGED <<hostVars, timeVars, quickVars, wireVars, tool, format, progressToken, screenshots, run, cancelled, calls, idVars,
                   pc, sink, data, fetchCount, scraperData, polls, submits,
                   notifications, result, failure, rejected>>

\* The process runs: process.exit ends every continuation of every request.
Alive == process = "connected"

\* The steps scrapeWithPrompt shares with scrape are the chat id and the POST,
\* the GET, the rejections of either, the delay and `return scraperData`.
NextMono ==
    \/ \E c \in calls : Alive /\ MonoHandlerReceive(c)
    \/ \E c \in calls : Alive /\ Start(c)
    \/ \E c \in calls : Alive /\ MonoSubmit(c)
    \/ \E c \in calls : Alive /\ SubmitFails(c)
    \/ \E c \in calls : Alive /\ MonoLoopHead(c)
    \/ \E c \in calls : Alive /\ IssuePoll(c)
    \/ \E c \in calls : Alive /\ MonoPoll(c)
    \/ \E c \in calls : Alive /\ PollFails(c)
    \/ \E c \in calls : Alive /\ Sleep(c)
    \/ \E c \in calls : Alive /\ MonoReportDone(c)
    \/ \E c \in calls : Alive /\ Return(c)
    \/ \E c \in calls : Alive /\ MonoHandlerReturn(c)
    \/ \E c \in calls : Alive /\ MonoHandlerCatch(c)

MonoSpec == InitMono /\ [][NextMono]_vars

MonoPairSpec == InitMonoPair /\ [][NextMono]_vars

\* Two invocations on one event loop: the continuation of each runs when it
\* is ready, whatever the other is waiting for.
PairFairSpec == PairSpec /\ \A c \in CallIds : WF_vars(CallStep(c))

NextServer ==
    \/ Next
    \/ \E c \in calls : HandlerReceive(c)
    \/ \E c \in calls : ApiScreenshot(c)
    \/ \E c \in calls : ScreenshotAnswers(c)
    \/ \E c \in calls : ScreenshotFails(c)
    \/ \E c \in calls : HandlerReturn(c)
    \/ \E c \in calls : HandlerCatch(c)

ServerSpec == InitServer /\ [][NextServer]_vars

\* The steps of the entry point that leave the handlers alone.
BootFrame ==
    UNCHANGED <<envKey, fetched, resourceResult, timeVars, quickVars, wireVars, handlerVars, run, cancelled, calls, idVars,
                pc, sink, data, fetchCount, scraperData, polls, submits,
                notifications, result, failure, rejected>>

\* validateENV that logs the missing key and goes on.
ValidateEnv_WarnOnly ==
    /\ process = "start"
    /\ process' = "validated"
    /\ BootFrame

\* validateENV('SCRAPERIS_API_KEY'), the first statement after dotenv.config():
\* process.exit(1) when process.env[key] is falsy.
ValidateEnv ==
    /\ process = "start"
    /\ process' = IF ~Truthy(envKey) THEN "exit-1" ELSE "validated"
    /\ BootFrame

\* main(): new ScraperMCPServer(SCRAPER_API_KEY, SCRAPER_API_BASE), which
\* builds the ScraperAPI and registers the handlers.
Construct ==
    /\ process = "validated"
    /\ process' = "constructed"
    /\ BootFrame

\* server.start(): the transport connects and requests can arrive.
Connect ==
    /\ process = "constructed"
    /\ process' = "connected"
    /\ BootFrame

\* server.start(): connect rejects and the catch block ends the process.
ConnectFails ==
    /\ process = "constructed"
    /\ process' = "exit-1"
    /\ BootFrame

NextStartup ==
    \/ ValidateEnv
    \/ Construct
    \/ Connect
    \/ ConnectFails
    \/ NextServer

StartupSpec == InitStartup /\ [][NextStartup]_vars

\* The statements of the module run to the end when the process starts.
StartupFairSpec ==
    StartupSpec /\ WF_vars(ValidateEnv) /\ WF_vars(Construct)

\* A read-resource request with the uri given: the scheme is cut out of it
\* and what is left, when not empty, is fetched, whether or not the registry
\* holds it; the fetch answers, or rejects and the request with it. An empty
\* rest throws 'Resource not found'.
ReadResource(uri) ==
    /\ Alive
    /\ LET screenshotURL == JoinParts(Replace(uri, Scheme))
       IN  IF Truthy(screenshotURL)
           THEN /\ fetched' = fetched \cup {screenshotURL}
                /\ \E answers \in BOOLEAN :
                      resourceResult' =
                          IF answers THEN ResourceBlob(screenshotURL)
                          ELSE ResourceError(TransportError.message)
           ELSE /\ resourceResult' = ResourceError("Resource not found")
                /\ UNCHANGED fetched
    /\ UNCHANGED <<process, envKey, timeVars, quickVars, wireVars, handlerVars, run, cancelled, calls, idVars,
                   pc, sink, data, fetchCount, scraperData, polls, submits,
                   notifications, result, failure, rejected>>

\* One tool call, a scrape with format screenshot when it is a scrape, and
\* read-resource requests at any time before, during and after it.
InitResource ==
    /\ InitServer
    /\ \A c \in calls :
          /\ tool[c] = "scrape" => format[c] = "screenshot"
          /\ progressToken[c] = Absent

NextResource ==
    \/ NextServer
    \/ \E uri \in ResourceUris : ReadResource(uri)

ResourceSpec == InitResource /\ [][NextResource]_vars

\* The event loop runs every continuation that is ready, timers fire, and the
\* remote service answers or the call rejects: no invocation stalls while it
\* has a step to take.
FairSpec == Spec /\ WF_vars(Next)

\* ------------------------------------------------------------------ claims

\* The invocation c has a poll response in hand with processing === true.
StillProcessing(c) == scraperData[c].processing = "true"

\* The invocation c can still run another loop iteration within the model's cap.
CanIterate(c) == fetchCount[c] < PollCap

\* Nothing of invocation c's outcome, counter or history moves in this step.
NoOutcomeStep(c) ==
    /\ result'[c] = result[c]
    /\ failure'[c] = failure[c]
    /\ notifications'[c] = notifications[c]
    /\ polls'[c] = polls[c]

\* C1: a poll response with processing == true, whatever its status, error,
\* markdown or screenshot, is neither returned nor failed on: scrape goes to
\* its delay, from the delay back to the top of the loop, and (the scheduler
\* being fair) issues another poll.
C1_ProcessingRetries ==
    /\ [][\A c \in calls :
            (pc[c] = "fetch" /\ StillProcessing(c)') =>
                /\ pc'[c] = "sleep"
                /\ NoOutcomeStep(c)]_vars
    /\ [](\A c \in calls :
            StillProcessing(c) =>
                /\ pc[c] \in {"sleep", "loop"}
                /\ result[c] = NoResponse
                /\ failure[c] = NoError)
    /\ [][\A c \in calls :
            (StillProcessing(c) /\ pc[c] = "sleep" /\ pc'[c] # pc[c]) =>
                /\ pc'[c] = "loop"
                /\ NoOutcomeStep(c)]_vars
    /\ \A c \in CallIds :
          (StillProcessing(c) /\ CanIterate(c)) ~> (pc[c] = "fetch")

\* Witness of C1: a response that says processing together with a completed
\* status and data has been received, and scrape sits in its delay.
C1_Witness ==
    \E c \in calls :
        /\ StillProcessing(c)
        /\ scraperData[c].status = "completed"
        /\ Truthy(scraperData[c].error)
        /\ HasData(scraperData[c])
        /\ pc[c] = "sleep"
        /\ polls[c] >= 2

\* The invocation c has a poll response in hand whose status is completed or
\* failed and that carries neither markdown nor screenshot.
TerminalWithoutData(c) ==
    /\ scraperData[c].status \in {"completed", "failed"}
    /\ ~HasData(scraperData[c])

\* The response in hand reports an error that scrape looks at (processing is
\* not true).
ReportsError(c) ==
    /\ scraperData[c].processing # "true"
    /\ Truthy(scraperData[c].error)

\* C2 as stated: every poll response with a terminal status and neither
\* markdown nor screenshot is retried silently: no success, no error surfaced.
C2_TerminalEmptyRetried ==
    \A c \in calls :
        TerminalWithoutData(c) =>
            /\ pc[c] \in {"sleep", "loop"}
            /\ failure[c] = NoError

\* C2 amended: a poll response with a terminal status and neither markdown nor
\* screenshot, unless it reports an error with processing not true, is retried
\* silently: scrape goes to its delay, back to the top of the loop and issues
\* another poll; no success and no error reach the caller.
C2_TerminalEmptyNoErrorRetried ==
    /\ [][\A c \in calls :
            (pc[c] = "fetch" /\ TerminalWithoutData(c)' /\ ~ReportsError(c)') =>
                /\ pc'[c] = "sleep"
                /\ NoOutcomeStep(c)]_vars
    /\ [](\A c \in calls :
            (TerminalWithoutData(c) /\ ~ReportsError(c)) =>
                /\ pc[c] \in {"sleep", "loop"}
                /\ result[c] = NoResponse
                /\ failure[c] = NoError)
    /\ [][\A c \in calls :
            (TerminalWithoutData(c) /\ ~ReportsError(c)
                /\ pc[c] = "sleep" /\ pc'[c] # pc[c]) =>
                /\ pc'[c] = "loop"
                /\ NoOutcomeStep(c)]_vars
    /\ \A c \in CallIds :
          (TerminalWithoutData(c) /\ ~ReportsError(c) /\ CanIterate(c))
              ~> (pc[c] = "fetch")

\* Witness of C2: { status: "completed" } alone (scenario D) has been received
\* with processing not true, and scrape sits in its delay.
C2_Witness ==
    \E c \in calls :
        /\ scraperData[c].status = "completed"
        /\ scraperData[c].processing # "true"
        /\ ~Truthy(scraperData[c].error)
        /\ ~HasData(scraperData[c])
        /\ pc[c] = "sleep"
        /\ polls[c] >= 2

\* C3: every payload scrape returns as a success carries markdown or
\* screenshot, on the synchronous path as on the polled path.
C3_ReturnedPayloadReady ==
    \A c \in calls : pc[c] = "returned" => HasData(result[c])

\* The response in hand is the ready payload of C4: processing not true,
\* status completed, no error, markdown or screenshot present.
ReadyResponse(c) ==
    /\ scraperData[c].processing # "true"
    /\ scraperData[c].status = "completed"
    /\ ~Truthy(scraperData[c].error)
    /\ HasData(scraperData[c])

\* C4: on a poll response with processing not true, status completed, no error
\* and markdown or screenshot, scrape notifies 100 to its sink, then returns
\* exactly that response; no poll is issued and the counter does not move after
\* that response, so it is the only one of its kind in the run.
C4_ReadyReturned ==
    /\ [][\A c \in calls :
            (pc[c] = "fetch" /\ ReadyResponse(c)') =>
                /\ pc'[c] = "ready"
                /\ NoOutcomeStep(c)]_vars
    /\ [](\A c \in calls :
            ReadyResponse(c) =>
                /\ pc[c] \in {"ready", "return", "returned"}
                /\ failure[c] = NoError
                /\ pc[c] = "returned" => result[c] = scraperData[c])
    /\ [][\A c \in calls :
            ReadyResponse(c) =>
                /\ polls'[c] = polls[c]
                /\ fetchCount'[c] = fetchCount[c]
                /\ scraperData'[c] = scraperData[c]
                /\ (pc[c] = "ready" /\ pc'[c] # pc[c]) =>
                      /\ pc'[c] = "return"
                      /\ sink[c] = "ok" =>
                            notifications'[c] = Append(notifications[c], 100)
                /\ (pc[c] = "return" /\ pc'[c] # pc[c]) =>
                      /\ pc'[c] = "returned"
                      /\ notifications'[c] = notifications[c]]_vars
    /\ \A c \in CallIds : ReadyResponse(c) ~> (pc[c] = "returned")

\* Witness of C4: the second poll brought the ready payload, 100 was notified
\* last and the payload was returned.
C4_Witness ==
    \E c \in calls :
        /\ ReadyResponse(c)
        /\ pc[c] = "returned"
        /\ result[c] = scraperData[c]
        /\ polls[c] = 2
        /\ notifications[c] = <<1, 2, 100>>

\* The response in hand is the failure of scenario C: status failed with an
\* error message, processing not true.
FailedWithMessage(c) ==
    /\ scraperData[c].processing # "true"
    /\ scraperData[c].status = "failed"
    /\ Truthy(scraperData[c].error)

\* C5: a poll response with status failed and an error message (processing not
\* true) makes scrape fail at once with a job failure whose message carries the
\* remote error message; no poll and no progress notification follow.
C5_FailedWithMessageThrows ==
    /\ [][\A c \in calls :
            (pc[c] = "fetch" /\ FailedWithMessage(c)') =>
                /\ pc'[c] = "thrown"
                /\ polls'[c] = polls[c]
                /\ notifications'[c] = notifications[c]
                /\ result'[c] = result[c]]_vars
    /\ [](\A c \in calls :
            FailedWithMessage(c) =>
                /\ pc[c] = "thrown"
                /\ result[c] = NoResponse
                /\ failure[c].kind = "job"
                /\ failure[c].message = "Scraper error: " \o scraperData[c].error)
    /\ [][\A c \in calls :
            pc[c] = "thrown" =>
                /\ pc'[c] = "thrown"
                /\ failure'[c] = failure[c]
                /\ NoOutcomeStep(c)]_vars

\* Witness of C5: { status: "failed", error: "blocked" } was received and
\* scrape has thrown "Scraper error: blocked".
C5_Witness ==
    \E c \in calls :
        /\ FailedWithMessage(c)
        /\ scraperData[c].error = "blocked"
        /\ pc[c] = "thrown"
        /\ failure[c].message = "Scraper error: blocked"
        /\ polls[c] >= 1

\* C6: every poll response with processing not true and status failed raises a
\* job failure at once, with or without an error message, with or without
\* markdown or screenshot; it is never returned as a success.
C6_FailedAlwaysThrows ==
    \A c \in calls :
        (scraperData[c].processing # "true" /\ scraperData[c].status = "failed")
            => (pc[c] = "thrown" /\ failure[c].kind = "job")

\* C7: every poll response with processing not true that carries an error
\* message is surfaced at once as a job failure, whatever its status.
C7_ErrorAlwaysThrows ==
    \A c \in calls :
        ReportsError(c) => (pc[c] = "thrown" /\ failure[c].kind = "job")

NonDecreasing(s) == \A i \in 1..(Len(s) - 1) : s[i] <= s[i + 1]

\* C8: the values passed to the progress sink of one request are
\* non-decreasing, for any number of polls.
C8_ProgressNonDecreasing ==
    \A c \in calls : NonDecreasing(notifications[c])

\* How many times the value v occurs in the sequence s.
Occurrences(s, v) == Cardinality({i \in 1..Len(s) : s[i] = v})

\* C9: in every run with a progress sink that returns success, 100 is notified
\* exactly once and is the last notification.
C9_HundredOnceAndLast ==
    \A c \in calls :
        (pc[c] = "returned" /\ sink[c] = "ok") =>
            /\ Occurrences(notifications[c], 100) = 1
            /\ notifications[c][Len(notifications[c])] = 100

\* C10: 100 is notified only on a successful terminal return: never in a run
\* that has failed, never before a ready payload is in hand.
C10_HundredOnlyOnSuccess ==
    \A c \in calls :
        Occurrences(notifications[c], 100) > 0 =>
            /\ pc[c] \in {"return", "returned"}
            /\ HasData(scraperData[c])

\* C11: every intermediate progress value, reported from the poll counter at
\* the top of an iteration, is strictly below 100.
C11_IntermediateBelowHundred ==
    [][\A c \in calls :
        (pc[c] = "loop" /\ pc'[c] = "poll" /\ sink[c] = "ok") =>
            notifications'[c][Len(notifications'[c])] < 100]_vars

\* Nothing at all of invocation c moves in this step.
Halted(c) ==
    /\ pc'[c] = pc[c]
    /\ result'[c] = result[c]
    /\ failure'[c] = failure[c]
    /\ notifications'[c] = notifications[c]
    /\ polls'[c] = polls[c]
    /\ submits'[c] = submits[c]
    /\ fetchCount'[c] = fetchCount[c]

\* C12: a submit response without job_id is returned at once and unchanged:
\* one remote call (the submit), no poll, no progress notification, and
\* nothing happens after the return.
C12_SynchronousReturn ==
    /\ [][\A c \in calls :
            (pc[c] = "submit" /\ pc'[c] \notin {"submit", "thrown"}
                /\ ~Truthy(data'[c].job_id)) =>
                /\ pc'[c] = "returned"
                /\ result'[c] = data'[c]
                /\ submits'[c] = 1
                /\ polls'[c] = 0
                /\ fetchCount'[c] = 0
                /\ notifications'[c] = << >>]_vars
    /\ [][\A c \in calls : pc[c] = "returned" => Halted(c)]_vars

\* Witness of C12: scenario A, { markdown, no screenshot, no job_id }, was
\* answered by the submit call and returned.
C12_Witness ==
    \E c \in calls :
        /\ pc[c] = "returned"
        /\ data[c].job_id = Absent
        /\ data[c].markdown = "World"
        /\ data[c].screenshot = Absent
        /\ result[c] = data[c]
        /\ submits[c] = 1
        /\ polls[c] = 0
        /\ sink[c] = "ok"
        /\ notifications[c] = << >>

\* The two poll responses of scenario B.
ScenarioB_First ==
    [NoResponse EXCEPT !.processing = "true", !.status = "running"]

ScenarioB_Second ==
    [NoResponse EXCEPT !.status = "completed", !.markdown = "World"]

\* The first poll of invocation c was answered as in scenario B.
FirstPollB(c) == polls[c] = 1 /\ scraperData[c] = ScenarioB_First

\* The second poll of invocation c was answered as in scenario B.
SecondPollB(c) == polls[c] = 2 /\ scraperData[c] = ScenarioB_Second

\* C13 as stated: in scenario B the sink receives exactly [1, 100].
C13_ScenarioB_OneThenHundred ==
    \A c \in CallIds :
        [](FirstPollB(c) =>
            []((SecondPollB(c) /\ pc[c] = "returned" /\ sink[c] = "ok") =>
                  notifications[c] = <<1, 100>>))

\* C13 amended: in scenario B scrape issues exactly two polls, returns the
\* second poll's payload, and the sink receives exactly [1, 2, 100]: the
\* counter is reported before every poll, the second included.
C13_ScenarioB_OneTwoHundred ==
    /\ \A c \in CallIds :
        [](FirstPollB(c) =>
            [](SecondPollB(c) =>
                  /\ pc[c] \in {"ready", "return", "returned"}
                  /\ polls[c] = 2
                  /\ pc[c] = "returned" =>
                        /\ result[c] = ScenarioB_Second
                        /\ sink[c] = "ok" => notifications[c] = <<1, 2, 100>>))
    /\ \A c \in CallIds : SecondPollB(c) ~> (pc[c] = "returned")

\* Witness of C13: scenario B has run to its return. The first response does
\* not outlive its iteration, so the state shows the second one.
C13_Witness ==
    \E c \in calls :
        /\ SecondPollB(c)
        /\ pc[c] = "returned"
        /\ result[c] = ScenarioB_Second
        /\ notifications[c] = <<1, 2, 100>>

\* C14: a poll response with processing not true, no terminal status, and
\* markdown or screenshot is an implicit success: 100 is notified and the
\* payload returned, no further poll.
C14_ImplicitSuccess ==
    \A c \in calls :
        (/\ scraperData[c].processing # "true"
         /\ scraperData[c].status \notin {"completed", "failed"}
         /\ HasData(scraperData[c]))
            => pc[c] \in {"ready", "return", "returned"}

\* A non-terminal poll response, as C16 lists them: processing true, a status
\* that is not terminal, or a terminal status without markdown, screenshot
\* and error.
NonTerminalResponse(r) ==
    \/ r.processing = "true"
    \/ r.status \notin {"completed", "failed"}
    \/ (~Truthy(r.markdown) /\ ~Truthy(r.screenshot) /\ ~Truthy(r.error))

\* C16: no iteration cap and no timeout. A non-terminal poll response sends
\* scrape to its delay without an outcome; from the delay, the top of the loop
\* and the progress report the only way is on to the next poll, at every
\* value of the counter; and the next poll is issued.
C16_NoIterationCap ==
    /\ [][\A c \in calls :
            (pc[c] = "fetch" /\ pc'[c] # "fetch" /\ rejected'[c] = rejected[c]
                /\ NonTerminalResponse(scraperData'[c])) =>
                /\ pc'[c] = "sleep"
                /\ NoOutcomeStep(c)]_vars
    /\ [][\A c \in calls :
            /\ (pc[c] = "sleep" /\ pc'[c] # pc[c]) => pc'[c] = "loop"
            /\ (pc[c] = "loop" /\ pc'[c] # pc[c]) => pc'[c] = "poll"
            /\ (pc[c] = "poll" /\ pc'[c] # pc[c]) =>
                  (pc'[c] = "fetch" /\ polls'[c] = polls[c] + 1)
            /\ pc[c] \in {"sleep", "loop", "poll"} =>
                  (result'[c] = result[c] /\ failure'[c] = failure[c])]_vars
    /\ \A c \in CallIds :
          (pc[c] = "sleep" /\ CanIterate(c)) ~> (pc[c] = "fetch")

\* Witness of C16: more polls than the progress total have been issued, all
\* answered by non-terminal responses, and scrape is in its delay again.
C16_Witness ==
    \E c \in calls :
        /\ polls[c] > 100
        /\ pc[c] = "sleep"
        /\ NonTerminalResponse(scraperData[c])
        /\ result[c] = NoResponse
        /\ failure[c] = NoError

\* C18: the payload scrape returns is the last remote response it received,
\* field for field: the submit response when no poll was issued, the last
\* poll response otherwise.
C18_ReturnsLastResponse ==
    \A c \in calls :
        pc[c] = "returned" =>
            result[c] = (IF polls[c] = 0 THEN data[c] ELSE scraperData[c])

\* Witness of C18: a payload with status failed and processing false came
\* back from the second poll and was returned as received.
C18_Witness ==
    \E c \in calls :
        /\ pc[c] = "returned"
        /\ polls[c] = 2
        /\ scraperData[c].status = "failed"
        /\ scraperData[c].processing = Absent
        /\ scraperData[c].markdown = "World"
        /\ result[c] = scraperData[c]

\* C20: a rejected submit or poll call is surfaced as a failure and not
\* retried: one attempt, the invocation has thrown the transport error, and
\* no remote call follows.
C20_TransportFailureSurfaced ==
    /\ [](\A c \in calls :
            /\ submits[c] <= 1
            /\ rejected[c] > 0 =>
                  /\ rejected[c] = 1
                  /\ pc[c] = "thrown"
                  /\ failure[c].kind = "transport"
                  /\ result[c] = NoResponse)
    /\ [][\A c \in calls : rejected[c] > 0 => Halted(c)]_vars

\* Witness of C20: the second poll rejected and scrape has thrown.
C20_Witness ==
    \E c \in calls :
        /\ rejected[c] = 1
        /\ polls[c] = 2
        /\ pc[c] = "thrown"
        /\ failure[c].kind = "transport"

\* The invocations that have generated their chat_id.
Started == {c \in calls : pc[c] # "idle"}

\* C17: an invocation generates its chat_id once; its submit call and every
\* one of its polls carry that id; no two invocations share an id, so no poll
\* of one carries the id of another.
C17_OneChatIdPerInvocation ==
    /\ nextId = Cardinality(Started) + 1
    /\ \A c \in Started :
        /\ chatId[c] # Absent
        /\ submitChatId[c] = chatId[c]
        /\ pollChatIds[c] \subseteq {chatId[c]}
        /\ polls[c] > 0 => pollChatIds[c] = {chatId[c]}
        /\ \A d \in Started \ {c} :
            /\ chatId[d] # chatId[c]
            /\ chatId[d] \notin pollChatIds[c]

\* Witness of C17: two invocations are in flight and both have polled, one of
\* them twice.
C17_Witness ==
    \E c \in calls : \E d \in calls \ {c} :
        /\ polls[c] = 2
        /\ polls[d] >= 1
        /\ pollChatIds[c] = {chatId[c]}
        /\ pollChatIds[d] = {chatId[d]}
        /\ chatId[c] # chatId[d]

\* C15: once the caller's cancellation signal is triggered, scrape issues no
\* further poll, returns no payload, and ends with a cancellation outcome: the
\* signal is looked at in every iteration, so at the latest when the next one
\* starts.
C15_CancellationObserved ==
    [][\A c \in calls :
        cancelled[c] =>
            /\ polls'[c] = polls[c]
            /\ result'[c] = result[c]
            /\ pc'[c] \in {"returned", "thrown"} =>
                  failure'[c].kind = "cancelled"]_vars

\* The tool call c has been answered.
Answered(c) == handler[c] = "done"

\* The operation of the tool call c failed: the awaited scrape or screenshot
\* rejected (remote job failure, transport failure), or the tool is unknown.
ToolCallFailed(c) == pc[c] = "thrown" \/ tool[c] \notin {"scrape", "screenshot"}

\* C19: the tool-call handler never lets an exception cross the tool boundary.
\* Every answered tool call has a well-formed result, one text item and a
\* boolean isError; isError is true exactly when scrape or screenshot rejected
\* or the tool name is unknown, and then the text is 'Error: ' followed by the
\* message of the error; on every other path isError is false.
C19_HandlerContainsFailures ==
    \A c \in calls :
        /\ handler[c] \in {"idle", "scrape", "screenshot", "done"}
        /\ ~Answered(c) => toolResult[c] = NoResult
        /\ Answered(c) =>
            /\ toolResult[c].isError \in BOOLEAN
            /\ Len(toolResult[c].content) = 1
            /\ toolResult[c].content[1].type = "text"
            /\ toolResult[c].isError = ToolCallFailed(c)
            /\ pc[c] = "thrown" =>
                  toolResult[c].content[1].text = "Error: " \o failure[c].message
            /\ tool[c] \notin {"scrape", "screenshot"} =>
                  toolResult[c].content[1].text = "Error: Unknown tool: " \o tool[c]

\* Witness of C19: a scrape tool call whose job failed remotely with the
\* error 'blocked' was answered with isError true and the error text.
C19_Witness ==
    \E c \in calls :
        /\ Answered(c)
        /\ tool[c] = "scrape"
        /\ failure[c].kind = "job"
        /\ polls[c] >= 1
        /\ toolResult[c].isError
        /\ toolResult[c].content[1].text = "Error: Scraper error: blocked"

\* C21: a transport failure of one poll does not end the poll loop: the
\* failed call is not retried at once, the invocation goes on to its delay and
\* the next iteration issues a fresh poll.
C21_PollLoopSurvivesTransportFailure ==
    [][\A c \in calls :
        (pc[c] = "fetch" /\ rejected'[c] = rejected[c] + 1) =>
            /\ pc'[c] \in {"sleep", "loop"}
            /\ failure'[c] = NoError]_vars

\* Everything invocation c holds: its position, its counter, its remote
\* calls, its notifications and its outcome.
LocalState(c) ==
    <<pc[c], chatId[c], submitChatId[c], pollChatIds[c], data[c], fetchCount[c],
      scraperData[c], polls[c], submits[c], notifications[c], result[c],
      failure[c], rejected[c]>>

\* The values 1, 2, .., n
CountUp(n) == [i \in 1..n |-> i]

\* What invocation c holds is what a run of c alone produces from the
\* responses c itself received: one poll for each iteration, the counter
\* reported before each poll, and the outcome decided on its own last response.
AsIfAlone(c) ==
    /\ polls[c] = IF pc[c] = "poll" THEN fetchCount[c] - 1 ELSE fetchCount[c]
    /\ submits[c] = IF pc[c] = "idle" THEN 0 ELSE 1
    /\ notifications[c] =
          IF sink[c] = "none" THEN << >>
          ELSE IF fetchCount[c] > 0 /\ pc[c] \in {"return", "returned"}
               THEN Append(CountUp(fetchCount[c]), Hundred)
               ELSE CountUp(fetchCount[c])
    /\ pc[c] \in {"sleep", "ready", "return"} =>
          PollDecision(scraperData[c]) = IF pc[c] = "sleep" THEN "sleep" ELSE "ready"
    /\ (pc[c] = "returned" /\ fetchCount[c] > 0) =>
          (result[c] = scraperData[c] /\ PollDecision(result[c]) = "ready")
    /\ (pc[c] = "thrown" /\ failure[c].kind = "job") =>
          (PollDecision(scraperData[c]) = "thrown"
             /\ failure[c] = JobError(scraperData[c].error))

\* C22: two concurrent invocations of scrape run independent sequential
\* loops. Every step is the step of one invocation and leaves everything the
\* other holds unchanged; what each holds is what it produces alone from its
\* own responses; and an invocation with a ready payload returns it, even when
\* the other is suspended or never finishes polling.
C22_IndependentLoops ==
    /\ [](\A c \in calls : AsIfAlone(c))
    /\ [][\E c \in calls : \A d \in CallIds \ {c} : LocalState(d)' = LocalState(d)]_vars
    /\ \A c \in CallIds : (pc[c] = "ready") ~> (pc[c] = "returned")

\* Witness of C22: one invocation has returned after a single poll while the
\* other, two polls into its loop, is suspended in its delay.
C22_Witness ==
    \E c \in calls : \E d \in calls \ {c} :
        /\ pc[c] = "returned" /\ fetchCount[c] = 1 /\ polls[c] = 1
        /\ pc[d] = "sleep" /\ fetchCount[d] = 2 /\ polls[d] = 2
        /\ sink[c] = "ok" /\ notifications[c] = <<1, Hundred>>
        /\ sink[d] = "ok" /\ notifications[d] = <<1, 2>>

\* C23: progress delivery is fire-and-forget. Whatever becomes of the
\* notification, the iteration that reported its counter goes on to issue its
\* poll, and the invocation that reported 100 goes on to return the payload.
C23_ProgressFireAndForget ==
    [][\A c \in calls :
        /\ (pc[c] = "loop" /\ fetchCount'[c] = fetchCount[c] + 1) => pc'[c] = "poll"
        /\ (pc[c] = "ready" /\ pc'[c] # "ready") => pc'[c] = "return"]_vars

\* C24: every progress notification emitted while handling a scrape tool call
\* carries the progress token the request supplied, never an id generated
\* locally, and total 100.
C24_ProgressCarriesRequestToken ==
    \A c \in calls :
        \A i \in 1..Len(sent[c]) :
            /\ sent[c][i].total = Hundred
            /\ progressToken[c] # Absent
            /\ sent[c][i].progressToken = progressToken[c]

\* The scrape tool call c asked for format fmt and was answered from a ready
\* payload, one that the poll loop returned.
AnsweredFromPayload(c, fmt) ==
    /\ Answered(c)
    /\ tool[c] = "scrape"
    /\ format[c] = fmt
    /\ pc[c] = "returned"
    /\ fetchCount[c] > 0

\* C25: when json is asked for and the ready payload carries no data, a
\* separate GET /get_data asking for the json representation is issued for the
\* same chat_id before the result is rendered.
C25_StructuredFetchedSeparately ==
    \A c \in calls :
        (AnsweredFromPayload(c, "json") /\ ~Truthy(result[c].data)) =>
            "json" \in pollFormats[c]

\* The scrape tool call c asked for format fmt, scrape returned a payload and
\* the handler has rendered it.
Rendered(c, fmt) ==
    /\ Answered(c)
    /\ tool[c] = "scrape"
    /\ format[c] = fmt
    /\ pc[c] = "returned"

\* The handler answered c with the whole payload, serialized.
RawPayloadAnswer(c) ==
    /\ Len(toolResult[c].content) = 1
    /\ toolResult[c].content[1].text = Stringify(result[c])

\* C26: rendering does not fail on a missing optional field. A scrape tool
\* call with format screenshot whose payload has no screenshot reference is
\* answered, without an exception, by a result that says so explicitly, not
\* by the rendering of something else.
C26_MissingScreenshotNotAvailable ==
    \A c \in calls :
        (Rendered(c, "screenshot") /\ ~Truthy(result[c].screenshot)) =>
            /\ Len(toolResult[c].content) = 1
            /\ ~RawPayloadAnswer(c)

\* C27: a scrape tool call with format json for which no structured data was
\* obtained is answered with a 'no data' result: the handler does not crash
\* and does not hand out the raw payload in place of the structured data.
C27_MissingDataNoDataResult ==
    \A c \in calls :
        (Rendered(c, "json") /\ ~Truthy(result[c].data)) =>
            /\ toolResult[c].content # << >>
            /\ toolResult[c].content[1].text # Stringify(result[c])

\* The url of the screenshot of a payload, Undefined when it has no
\* screenshot object.
ScreenshotUrlOf(p) ==
    IF p.screenshot.kind = "object" THEN p.screenshot.url ELSE Undefined

\* C28: round trip of the quick format. Parsing the body the tool call
\* returned and reading markdown and screenshot.url gives back exactly the
\* markdown and the screenshot url of the payload scrape returned, for every
\* payload: every character of them, and their absence.
C28_QuickRoundTrip ==
    /\ quickStage \in {"rendered", "parsed"} => quickBody = StringifyPayload(quickPayload)
    /\ quickStage = "parsed" =>
        /\ quickParsed.kind = "object"
        /\ TextOf(Property(quickParsed, "markdown")) = quickPayload.markdown
        /\ TextOf(Property(Property(quickParsed, "screenshot"), "url"))
              = ScreenshotUrlOf(quickPayload)

\* Witness of C28: a payload whose markdown is a quote followed by a newline
\* and whose screenshot url ends in a quote has been rendered and parsed back.
C28_Witness ==
    /\ quickStage = "parsed"
    /\ quickPayload.markdown = <<DQ, NL>>
    /\ quickPayload.screenshot.kind = "object"
    /\ quickPayload.screenshot.url = <<"h", "/", DQ>>
    /\ quickBody # << >>
    /\ TextOf(Property(quickParsed, "markdown")) = <<DQ, NL>>

\* The handler answered c with the markdown of the payload, verbatim, as its
\* one text item, and isError false.
MarkdownVerbatim(c) ==
    toolResult[c] =
        [content |-> <<[type |-> "text", text |-> result[c].markdown]>>,
         isError |-> FALSE]

\* C29 as stated: a scrape tool call with format markdown whose payload has a
\* markdown field is answered with that markdown verbatim.
C29_MarkdownVerbatim ==
    \A c \in calls :
        (Rendered(c, "markdown") /\ result[c].markdown # Absent) => MarkdownVerbatim(c)

\* C29, amended: a scrape tool call with format markdown whose payload has a
\* markdown that is not empty is answered with isError false and exactly one
\* text item, the markdown verbatim; an empty markdown is answered like a
\* missing one, with the serialized payload.
C29_NonEmptyMarkdownVerbatim ==
    \A c \in calls :
        /\ (Rendered(c, "markdown") /\ Truthy(result[c].markdown)) => MarkdownVerbatim(c)
        /\ (Rendered(c, "markdown") /\ ~Truthy(result[c].markdown)) => RawPayloadAnswer(c)

\* Witness of C29: the poll loop returned a payload with the markdown 'World'
\* to a tool call with format markdown, and the answer is the text 'World'.
C29_Witness ==
    \E c \in calls :
        /\ Rendered(c, "markdown")
        /\ fetchCount[c] >= 1
        /\ result[c].markdown = "World"
        /\ toolResult[c].content = <<[type |-> "text", text |-> "World"]>>
        /\ ~toolResult[c].isError

\* screenshot(url) has been called for the tool call c.
ScreenshotCalled(c) == tool[c] = "screenshot" /\ pc[c] \in {"shot", "returned", "thrown"}

\* C30: the screenshot operation is submission only. screenshot(url) issues
\* exactly one remote call, POST /screenshot with the url, a newly generated
\* chat_id and the API key header; it resolves with the response of that call;
\* it issues no submit and no poll and reports no progress. No other
\* operation posts to /screenshot.
C30_ScreenshotSubmissionOnly ==
    \A c \in calls :
        /\ ScreenshotCalled(c) =>
            /\ shots[c] = <<[method |-> "POST", path |-> "/screenshot", url |-> ShotUrl,
                             chat_id |-> chatId[c], apiKey |-> ApiKey]>>
            /\ chatId[c] = generateChatId(nextId - 1)
            /\ submits[c] = 0 /\ polls[c] = 0 /\ pollFormats[c] = {}
            /\ fetchCount[c] = 0
            /\ notifications[c] = << >> /\ sent[c] = << >>
            /\ pc[c] = "returned" => result[c] \in ScreenshotResponses
            /\ (pc[c] = "returned" /\ Answered(c)) =>
                  toolResult[c] = ToolText(Stringify(result[c]))
        /\ ~ScreenshotCalled(c) => shots[c] = << >>

\* Witness of C30: a screenshot tool call was answered with the response of
\* its one POST, which carried a screenshot url.
C30_Witness ==
    \E c \in calls :
        /\ ScreenshotCalled(c)
        /\ pc[c] = "returned"
        /\ Answered(c)
        /\ Len(shots[c]) = 1
        /\ shots[c][1].apiKey = ApiKey
        /\ Truthy(result[c].screenshot)
        /\ polls[c] = 0

\* The delays invocation c has behind it are one for each iteration it has
\* finished without an outcome, each of the configured 5000 ms.
OneFixedDelayPerIteration(c) ==
    /\ delays[c] \subseteq {5000}
    /\ sleeps[c] = IF pc[c] = "loop" \/ fetchCount[c] = 0
                   THEN fetchCount[c]
                   ELSE fetchCount[c] - 1

\* C32: between two consecutive polls of one invocation there is exactly one
\* delay of the fixed polling interval, 5000 ms on every iteration. The k-th
\* poll is issued when k - 1 delays have elapsed, so the first one follows the
\* submit without delay; a response that is no outcome leads to the delay and
\* only the delay leads to the next iteration.
C32_OneFixedDelayBetweenPolls ==
    [][\A c \in calls :
        /\ OneFixedDelayPerIteration(c)'
        /\ polls'[c] = polls[c] + 1 => sleeps[c] = polls[c]
        /\ (pc[c] = "fetch" /\ pc'[c] \notin {"fetch", "ready", "thrown"}) => pc'[c] = "sleep"
        /\ (pc[c] = "sleep" /\ pc'[c] # "sleep") =>
              (pc'[c] = "loop" /\ sleeps'[c] = sleeps[c] + 1)
        /\ (pc'[c] = "loop" /\ pc[c] # "loop") => pc[c] \in {"submit", "sleep"}]_vars

\* Witness of C32: the third poll has been issued after two delays of 5000 ms.
C32_Witness ==
    \E c \in calls :
        /\ polls[c] = 3
        /\ pc[c] = "fetch"
        /\ sleeps[c] = 2
        /\ delays[c] = {5000}

\* The notifications of c that came from the poll counter: all of them but the
\* 100 reported once the payload is ready.
CounterNotifications(c) ==
    IF pc[c] \in {"return", "returned"} /\ fetchCount[c] > 0
    THEN SubSeq(notifications[c], 1, Len(notifications[c]) - 1)
    ELSE notifications[c]

\* C34: with a progress sink, the k-th poll of an invocation is immediately
\* preceded by the notification of the value k: the step that enters an
\* iteration increments the counter and reports it, the next step of the
\* invocation issues the poll, and so the notifications that came from the
\* counter are as many as the polls issued, the iteration that receives the
\* ready response included.
C34_PollPrecededByItsCount ==
    [][\A c \in calls :
        sink[c] = "ok" =>
            /\ (pc'[c] = "poll" /\ pc[c] # "poll") =>
                  /\ fetchCount'[c] = polls[c] + 1
                  /\ notifications'[c] = Append(notifications[c], polls[c] + 1)
            /\ polls'[c] = polls[c] + 1 =>
                  /\ pc[c] = "poll"
                  /\ Len(notifications[c]) = polls'[c]
                  /\ notifications[c][polls'[c]] = polls'[c]
                  /\ notifications'[c] = notifications[c]
            /\ pc'[c] # "poll" => Len(CounterNotifications(c)') = polls'[c]
            /\ pc'[c] = "poll" => Len(CounterNotifications(c)') = polls'[c] + 1]_vars

\* Witness of C34: the third poll is in flight and the sink has received 1, 2
\* and 3.
C34_Witness ==
    \E c \in calls :
        /\ sink[c] = "ok"
        /\ pc[c] = "fetch"
        /\ polls[c] = 3
        /\ notifications[c] = <<1, 2, 3>>

\* The invocation c has ended: its promise is settled.
Ended(c) == pc[c] \in {"returned", "thrown"}

\* C36: each invocation of scrape ends in exactly one outcome, a returned
\* payload or a thrown failure, never both; once it has ended it issues no
\* remote call and no progress notification and nothing it holds changes; and
\* the failure is never the trailing 'Polling ended without data'.
C36_ExactlyOneOutcome ==
    [][\A c \in calls :
        /\ Ended(c) =>
              /\ LocalState(c)' = LocalState(c)
              /\ sent'[c] = sent[c] /\ pollFormats'[c] = pollFormats[c]
              /\ sleeps'[c] = sleeps[c]
        /\ pc'[c] = "returned" => failure'[c] = NoError
        /\ pc'[c] = "thrown" => (failure'[c] # NoError /\ result'[c] = NoResponse)
        /\ ~Ended(c)' => (failure'[c] = NoError /\ result'[c] = NoResponse)
        /\ failure'[c].message # "Polling ended without data"]_vars

\* Witness of C36: an invocation has thrown the failure of its job on its
\* second poll, with two polls issued and two values reported.
C36_Witness ==
    \E c \in calls :
        /\ pc[c] = "thrown"
        /\ failure[c] = JobError("blocked")
        /\ polls[c] = 2
        /\ sink[c] = "ok"
        /\ notifications[c] = <<1, 2>>

\* C35: progress notifications are emitted for a scrape tool call if and only
\* if the request carries a progress token: once the call has polled, it has
\* sent notifications exactly when a token was supplied, the empty string
\* included.
C35_NotifiedIffTokenSupplied ==
    \A c \in calls :
        (tool[c] = "scrape" /\ polls[c] >= 1) =>
            ((sent[c] # << >>) = (progressToken[c] # Absent))

\* C37: every scrape tool call that completes without error returns a result
\* whose content list is non-empty, whatever the format asked for and
\* whatever payload the scrape resolved with.
C37_SuccessHasContent ==
    \A c \in calls :
        (tool[c] = "scrape" /\ Answered(c) /\ pc[c] = "returned") =>
            (toolResult[c].isError = FALSE /\ toolResult[c].content # << >>)

\* The last poll of c reported the failure of its job: a terminal status with
\* an error.
JobFailureReported(c) ==
    /\ pc[c] \notin {"idle", "submit", "loop", "poll", "fetch"}
    /\ PollDecision(scraperData[c]) = "thrown"

\* C33: on the single-file server a remote job failure reported for one
\* request stays in that request: the process keeps running while any other
\* tool call is in flight, so that call can still receive its own result.
C33_JobFailureStaysInRequest ==
    \A c \in calls : \A d \in calls \ {c} :
        (JobFailureReported(c) /\ handler[d] = "scrape") => Alive

\* The handler of the tool call c has performed a remote operation: the
\* submit call of a scrape or the POST of a screenshot.
RemoteOperationPerformed(c) == submits[c] > 0 \/ shots[c] # << >>

\* C38: every tool name for which the tool-call handler performs a remote
\* operation is among the tools the tool-listing handler returns.
C38_CallableToolsAreListed ==
    \A c \in calls : RemoteOperationPerformed(c) => tool[c] \in ListedTools

\* The registry holds url as the screenshot of some page.
Registered(url) == \E e \in screenshots : e[2] = url

\* C39: the read-resource handler fetches a URL only if a screenshot-format
\* scrape recorded it in the screenshots registry before; a uri naming any
\* other URL is answered 'Resource not found' without a fetch.
C39_FetchOnlyRegistered ==
    /\ \A url \in fetched : Registered(url)
    /\ (resourceResult.kind = "blob" => Registered(resourceResult.uri))

\* No handler has run and no remote call has been issued for the call c.
Untouched(c) ==
    /\ handler[c] = "idle" /\ toolResult[c] = NoResult
    /\ pc[c] = "idle" /\ submits[c] = 0 /\ polls[c] = 0
    /\ shots[c] = << >> /\ sent[c] = << >>

\* C31: when SCRAPERIS_API_KEY is not set at startup the process halts with
\* exit code 1 before the server is constructed or connected: it is never in
\* any other position than its first statement and the exit, it does reach
\* the exit, the exit is final, and no tool call is ever handled.
C31_MissingKeyHaltsBeforeServer ==
    /\ [](~Truthy(envKey) =>
            /\ process \in {"start", "exit-1"}
            /\ fetched = {} /\ resourceResult = NoResource
            /\ \A c \in calls : Untouched(c))
    /\ [][/\ envKey' = envKey
          /\ process = "exit-1" => UNCHANGED vars
          /\ process' = "constructed" => (process = "validated" /\ Truthy(envKey))
          /\ process' = "connected" => (process \in {"constructed", "connected"}
                                         /\ Truthy(envKey))]_vars
    /\ (~Truthy(envKey) ~> process = "exit-1")

\* Witness of C31: the process has exited and its key was never set, while a
\* scrape tool call was waiting to be sent.
C31_Witness ==
    /\ envKey = Absent
    /\ process = "exit-1"
    /\ \E c \in calls : tool[c] = "scrape" /\ Untouched(c)

====
